---- MODULE Spec2Model ----
(***************************************************************************)
(* A model of the database Q&A agent of flex-evals-viewer:                 *)
(*   agent/database.py  create_database, execute_query                     *)
(*   agent/agent.py     run_agent                                          *)
(*   evals/test_agent.py  _run_eval                                        *)
(* Three specifications share the variables:                               *)
(*   Spec       one run_agent invocation after another, called directly    *)
(*              (db_conn = None) or through _run_eval (db_conn supplied)   *)
(*   SpecUsage  the same code with the model calls' usage values varied    *)
(*   SpecDb     a client of the database provider alone                    *)
(***************************************************************************)
EXTENDS Integers, Sequences, FiniteSets, TLC

VARIABLES
    connections,      \* every sqlite3.Connection created so far: [open, db]
    databases,        \* the content of every in-memory database
    last,             \* the database provider call made last
    used,             \* the connections a client has run a statement on
    caller,           \* who called run_agent: "direct" or "_run_eval"
    pc,               \* where the run_agent invocation stands
    provider,         \* run_agent's argument
    owns_conn,        \* run_agent's locals, named as in the code
    db_conn,
    tool_result,
    tool_predictions,
    sql_query,
    query_result,
    query_success,
    text_prompt,
    response_result,
    returned,         \* the dict run_agent returned
    exc,              \* the exception run_agent raised
    trace             \* the calls the invocation has made, in order

dbVars == <<connections, databases>>
clientVars == <<last, used>>
agentVars == <<caller, pc, provider, owns_conn, db_conn, tool_result,
               tool_predictions, sql_query, query_result, query_success,
               text_prompt, response_result, returned, exc, trace>>
vars == <<connections, databases, last, used, caller, pc, provider, owns_conn,
          db_conn, tool_result, tool_predictions, sql_query, query_result,
          query_success, text_prompt, response_result, returned, exc, trace>>

\* ------------------------------------------------------------------ bounds
\* connections a behaviour may create (one per invocation in Spec)
MaxConns == 2
\* tool calls a tool-calling model result may hold
MaxPredictions == 2
\* token counts a model call reports: 1..MaxTokens
MaxTokens == 2
\* costs a model call reports: None or 1..MaxCost
MaxCost == 1
\* durations a model call reports: 1..MaxDuration
MaxDuration == 1

\* Python's None, where a string or an exception class is expected
None == "None"

\* Python's None, where a dict or a sequence is expected
NoneValue == [none |-> TRUE]

\* Python's None, where a cost is expected (costs are never negative)
NoneCost == -1

\* ---------------------------------------------------------------- database
\* The seeded tables, each abstracted to the set of its primary keys.
SeedStore ==
    [ tables    |-> {"customers", "products", "orders"},
      customers |-> 1..8,
      products  |-> 1..6,
      orders    |-> 1..12 ]

\* The content of an in-memory database whose connection was closed: nothing.
Freed == [ tables |-> {}, customers |-> {}, products |-> {}, orders |-> {} ]

\* The SQL strings the tool-calling model (or a client) may produce.
EmptySql       == ""
CountOrders    == "SELECT COUNT(*) FROM orders"
CountCustomers == "SELECT COUNT(*) FROM customers"
SelectMissing  == "SELECT id FROM products WHERE id = 99"
SyntaxError    == "SELEC 1"
NoSuchTable    == "SELECT * FROM nosuch"
TwoStatements  == "SELECT 1; SELECT 2"
DeleteOrder    == "DELETE FROM orders WHERE id = 1"
InsertCustomer == "INSERT INTO customers (id, name, email, country, created_at) VALUES (9, 'Ivan', 'ivan@example.com', 'Peru', '2024-09-01')"
DropOrders     == "DROP TABLE orders"

SqlStatements ==
    { EmptySql, CountOrders, CountCustomers, SelectMissing, SyntaxError,
      NoSuchTable, TwoStatements, DeleteOrder, InsertCustomer, DropOrders }

\* The SQL strings that are not valid SQL for any content of the store.
InvalidSql == { SyntaxError, NoSuchTable, TwoStatements }

\* sqlite3 outcomes: a cursor (description, rows) or a raised exception.
Cursor(description, rows, store) ==
    [ raised |-> None, message |-> "", description |-> description,
      rows |-> rows, store |-> store ]

Raise(class, message, store) ==
    [ raised |-> class, message |-> message, description |-> NoneValue,
      rows |-> <<>>, store |-> store ]

\* cursor.description of a statement that returns rows: one entry per column.
Description(names) == [names |-> names]

\* conn.execute(sql) on an open connection whose database holds `store`.
SqliteExecute(store, sql) ==
    CASE sql = EmptySql ->
           Cursor(NoneValue, <<>>, store)
      [] sql = CountOrders ->
           IF "orders" \in store.tables
             THEN Cursor(Description(<<"COUNT(*)">>), << <<Cardinality(store.orders)>> >>, store)
             ELSE Raise("OperationalError", "no such table: orders", store)
      [] sql = CountCustomers ->
           IF "customers" \in store.tables
             THEN Cursor(Description(<<"COUNT(*)">>), << <<Cardinality(store.customers)>> >>, store)
             ELSE Raise("OperationalError", "no such table: customers", store)
      [] sql = SelectMissing ->
           IF "products" \in store.tables
             THEN Cursor(Description(<<"id">>),
                         IF 99 \in store.products THEN << <<99>> >> ELSE <<>>,
                         store)
             ELSE Raise("OperationalError", "no such table: products", store)
      [] sql = SyntaxError ->
           Raise("OperationalError", "near SELEC: syntax error", store)
      [] sql = NoSuchTable ->
           Raise("OperationalError", "no such table: nosuch", store)
      [] sql = TwoStatements ->
           Raise("ProgrammingError", "You can only execute one statement at a time.", store)
      [] sql = DeleteOrder ->
           IF "orders" \in store.tables
             THEN Cursor(NoneValue, <<>>, [store EXCEPT !.orders = @ \ {1}])
             ELSE Raise("OperationalError", "no such table: orders", store)
      [] sql = InsertCustomer ->
           IF "customers" \notin store.tables
             THEN Raise("OperationalError", "no such table: customers", store)
             ELSE IF 9 \in store.customers
               THEN Raise("IntegrityError", "UNIQUE constraint failed: customers.id", store)
               ELSE Cursor(NoneValue, <<>>, [store EXCEPT !.customers = @ \cup {9}])
      [] sql = DropOrders ->
           IF "orders" \in store.tables
             THEN Cursor(NoneValue, <<>>, [store EXCEPT !.tables = @ \ {"orders"}])
             ELSE Raise("OperationalError", "no such table: orders", store)
      [] OTHER ->
           Raise("OperationalError", "syntax error", store)

\* conn.execute(sql) on connection c: a closed connection raises.
ConnExecute(cs, ds, c, sql) ==
    IF cs[c].open
      THEN SqliteExecute(ds[cs[c].db], sql)
      ELSE Raise("ProgrammingError", "Cannot operate on a closed database.", ds[cs[c].db])

\* The exception classes `except Exception` catches: all that sqlite3 raises.
Catches_sqlite_only(class) == class = "OperationalError"

Catches(class) == class \in {"OperationalError", "ProgrammingError", "IntegrityError"}

\* execute_query(conn, sql): the returned dict, the exception that escapes
\* (None when none does) and the databases afterwards.
execute_query(cs, ds, c, sql) ==
    LET cur == ConnExecute(cs, ds, c, sql) IN
    IF cur.raised = None
      THEN [ raised |-> None,
             result |-> [ columns   |-> IF cur.description # NoneValue
                                          THEN cur.description.names ELSE <<>>,
                          rows      |-> cur.rows,
                          row_count |-> Len(cur.rows) ],
             databases |-> [ds EXCEPT ![cs[c].db] = cur.store] ]
      ELSE IF Catches(cur.raised)
        THEN [ raised |-> None, result |-> [error |-> cur.message], databases |-> ds ]
        ELSE [ raised |-> cur.raised, result |-> NoneValue, databases |-> ds ]

\* sqlite3.connect(":memory:"): every call opens a new private database.
SharedMemoryDatabase(ds) == 1

NewDatabase(ds) == Len(ds) + 1

\* create_database(): connect, then the schema script, then the seed script.
create_database(cs, ds) ==
    LET db == NewDatabase(ds)
        n  == IF db > Len(ds) THEN db ELSE Len(ds)
    IN [ conn        |-> Len(cs) + 1,
         connections |-> Append(cs, [open |-> TRUE, db |-> db]),
         databases   |-> [d \in 1..n |-> IF d = db THEN SeedStore ELSE ds[d]] ]

\* conn.close(): the connection is closed and its in-memory database is gone.
close(cs, ds, c) ==
    [ connections |-> [cs EXCEPT ![c].open = FALSE],
      databases   |-> [ds EXCEPT ![cs[c].db] = Freed] ]

\* ------------------------------------------------- the state before any call
NoCall == [op |-> "none", conn |-> 0, sql |-> None, raised |-> None,
           escaped |-> None, result |-> NoneValue]

AgentIdle ==
    /\ caller = None
    /\ pc = "idle"
    /\ provider = None
    /\ owns_conn = FALSE
    /\ db_conn = 0
    /\ tool_result = NoneValue
    /\ tool_predictions = <<>>
    /\ sql_query = None
    /\ query_result = NoneValue
    /\ query_success = FALSE
    /\ text_prompt = NoneValue
    /\ response_result = NoneValue
    /\ returned = NoneValue
    /\ exc = None
    /\ trace = <<>>

Init ==
    /\ connections = <<>>
    /\ databases = <<>>
    /\ last = NoCall
    /\ used = {}
    /\ AgentIdle

\* ------------------------------------- a client of the database provider
\* conn = create_database()
ClientCreateDatabase ==
    /\ Len(connections) < MaxConns
    /\ LET r == create_database(connections, databases) IN
        /\ connections' = r.connections
        /\ databases' = r.databases
        /\ last' = [NoCall EXCEPT !.op = "create_database", !.conn = r.conn]
    /\ UNCHANGED <<used, agentVars>>

\* execute_query(conn, sql) on any connection the client holds, open or closed
ClientExecuteQuery ==
    \E c \in DOMAIN connections, sql \in SqlStatements :
        LET r == execute_query(connections, databases, c, sql) IN
        /\ databases' = r.databases
        /\ last' = [ op |-> "execute_query", conn |-> c, sql |-> sql,
                     raised |-> ConnExecute(connections, databases, c, sql).raised,
                     escaped |-> r.raised, result |-> r.result ]
        /\ used' = used \cup {c}
        /\ UNCHANGED <<connections, agentVars>>

\* conn.close()
ClientClose ==
    \E c \in DOMAIN connections :
        /\ connections[c].open
        /\ LET r == close(connections, databases, c) IN
            /\ connections' = r.connections
            /\ databases' = r.databases
        /\ last' = [NoCall EXCEPT !.op = "close", !.conn = c]
        /\ UNCHANGED <<used, agentVars>>

NextDb == ClientCreateDatabase \/ ClientExecuteQuery \/ ClientClose

SpecDb == Init /\ [][NextDb]_vars
\* ------------------------------------------------------------ model calls
\* _PROVIDER_TO_CLIENT
PROVIDER_TO_CLIENT ==
    [ anthropic |-> "ANTHROPIC_TOOLS", openai |-> "OPENAI_TOOLS" ]

\* whether _PROVIDER_TO_CLIENT[p] finds a client type
KnownProvider_with_default(p) == TRUE

KnownProvider(p) == p \in DOMAIN PROVIDER_TO_CLIENT

\* The usage a model call reports; a cost is None when the client has no price.
Usages(tokens, costs, durations) ==
    [ input_tokens : tokens, output_tokens : tokens, input_cost : costs,
      output_cost : costs, total_cost : costs, duration_seconds : durations ]

AllUsages ==
    Usages(1..MaxTokens, {NoneCost} \cup 1..MaxCost, 1..MaxDuration)

\* One usage record, for the behaviours that vary everything else.
OneUsage == Usages({MaxTokens}, {NoneCost}, {MaxDuration})

\* A tool call: the generate_sql tool with a sql argument, or a malformed one
\* whose arguments lack the sql key.
Predictions ==
    { [name |-> "generate_sql", arguments |-> [sql |-> s]] : s \in SqlStatements }
    \cup { [name |-> "generate_sql", arguments |-> [query |-> CountOrders]] }

PredictionLists(preds, n) ==
    UNION { [1..k -> preds] : k \in 0..n }

\* What tools_client.run_async returns.
ToolResults(lists, usages) ==
    { [ tool_predictions |-> ps, input_tokens |-> u.input_tokens,
        output_tokens |-> u.output_tokens, input_cost |-> u.input_cost,
        output_cost |-> u.output_cost, total_cost |-> u.total_cost,
        duration_seconds |-> u.duration_seconds ] : ps \in lists, u \in usages }

\* What text_client.run_async returns.
TextResults(usages) ==
    { [ response |-> "answer", input_tokens |-> u.input_tokens,
        output_tokens |-> u.output_tokens, input_cost |-> u.input_cost,
        output_cost |-> u.output_cost, total_cost |-> u.total_cost,
        duration_seconds |-> u.duration_seconds ] : u \in usages }

\* ------------------------------------------------------------- run_agent
\* Python's `x or 0` on a cost
OrZero(x) == IF x = NoneCost \/ x = 0 THEN 0 ELSE x

\* the usage dict built from the two results
CombineUsage_tool_only(t, r) ==
    [ input_tokens     |-> t.input_tokens,
      output_tokens    |-> t.output_tokens,
      input_cost       |-> OrZero(t.input_cost),
      output_cost      |-> OrZero(t.output_cost),
      total_cost       |-> OrZero(t.total_cost),
      duration_seconds |-> t.duration_seconds ]

CombineUsage(t, r) ==
    [ input_tokens     |-> t.input_tokens + r.input_tokens,
      output_tokens    |-> t.output_tokens + r.output_tokens,
      input_cost       |-> OrZero(t.input_cost) + OrZero(r.input_cost),
      output_cost      |-> OrZero(t.output_cost) + OrZero(r.output_cost),
      total_cost       |-> OrZero(t.total_cost) + OrZero(r.total_cost),
      duration_seconds |-> t.duration_seconds + r.duration_seconds ]

\* the finally block, on the way out by `path` ("return" or "raise")
Finally_return_only(path, owns, c, cs, ds) ==
    IF owns /\ path = "return" THEN close(cs, ds, c)
    ELSE [connections |-> cs, databases |-> ds]

Finally_always_closes(path, owns, c, cs, ds) == close(cs, ds, c)

Finally(path, owns, c, cs, ds) ==
    IF owns THEN close(cs, ds, c)
    ELSE [connections |-> cs, databases |-> ds]

\* An exception leaves the try block: the finally block runs, run_agent raises.
Raises(e) ==
    /\ exc' = e
    /\ pc' = "raised"
    /\ LET f == Finally("raise", owns_conn, db_conn, connections, databases) IN
        /\ connections' = f.connections
        /\ databases' = f.databases

\* A new invocation starts with fresh locals.
FreshLocals ==
    /\ tool_result' = NoneValue
    /\ tool_predictions' = <<>>
    /\ sql_query' = None
    /\ query_result' = NoneValue
    /\ query_success' = FALSE
    /\ text_prompt' = NoneValue
    /\ response_result' = NoneValue
    /\ returned' = NoneValue
    /\ exc' = None

Finished ==
    \/ pc = "idle"
    \/ caller = "direct" /\ pc \in {"returned", "raised"}
    \/ caller = "_run_eval" /\ pc = "eval_done"

\* run_agent(question, model_name, provider) with db_conn = None:
\* owns_conn is set and the connection is created
CallDirect(providers) ==
    /\ Finished
    /\ Len(connections) < MaxConns
    /\ \E p \in providers : provider' = p
    /\ caller' = "direct"
    /\ owns_conn' = TRUE
    /\ LET r == create_database(connections, databases) IN
        /\ db_conn' = r.conn
        /\ connections' = r.connections
        /\ databases' = r.databases
    /\ trace' = <<"create_database">>
    /\ pc' = "lookup"
    /\ FreshLocals
    /\ last' = [NoCall EXCEPT !.op = "create_database", !.conn = db_conn']
    /\ UNCHANGED used

\* _run_eval: db_conn = create_database(), then run_agent(..., db_conn=db_conn)
CallRunEval(providers) ==
    /\ Finished
    /\ Len(connections) < MaxConns
    /\ \E p \in providers : provider' = p
    /\ caller' = "_run_eval"
    /\ owns_conn' = FALSE
    /\ LET r == create_database(connections, databases) IN
        /\ db_conn' = r.conn
        /\ connections' = r.connections
        /\ databases' = r.databases
    /\ trace' = <<>>
    /\ pc' = "lookup"
    /\ FreshLocals
    /\ last' = [NoCall EXCEPT !.op = "create_database", !.conn = db_conn']
    /\ UNCHANGED used

\* client_type = _PROVIDER_TO_CLIENT[provider]; the tools client is created
\* and its run_async is awaited
LookupProvider ==
    /\ pc = "lookup"
    /\ IF KnownProvider(provider)
         THEN /\ pc' = "await_tool"
              /\ trace' = Append(trace, "tool_call")
              /\ UNCHANGED <<dbVars, exc>>
         ELSE /\ Raises("KeyError")
              /\ UNCHANGED trace
    /\ UNCHANGED <<clientVars, caller, provider, owns_conn, db_conn, tool_result,
                   tool_predictions, sql_query, query_result, query_success,
                   text_prompt, response_result, returned>>

\* tools_client.run_async raises
ToolCallFails_retried ==
    /\ pc = "await_tool"
    /\ IF Len(trace) < 4
         THEN /\ trace' = trace \o <<"tool_call_failed", "tool_call">>
              /\ UNCHANGED <<dbVars, pc, exc>>
         ELSE /\ Raises("ModelError")
              /\ trace' = Append(trace, "tool_call_failed")
    /\ UNCHANGED <<clientVars, caller, provider, owns_conn, db_conn, tool_result,
                   tool_predictions, sql_query, query_result, query_success,
                   text_prompt, response_result, returned>>

ToolCallFails ==
    /\ pc = "await_tool"
    /\ Raises("ModelError")
    /\ trace' = Append(trace, "tool_call_failed")
    /\ UNCHANGED <<clientVars, caller, provider, owns_conn, db_conn, tool_result,
                   tool_predictions, sql_query, query_result, query_success,
                   text_prompt, response_result, returned>>

\* tools_client.run_async returns
ToolCallReturns(results) ==
    /\ pc = "await_tool"
    /\ \E r \in results : tool_result' = r
    /\ pc' = "extract"
    /\ UNCHANGED <<dbVars, clientVars, caller, provider, owns_conn, db_conn,
                   tool_predictions, sql_query, query_result, query_success,
                   text_prompt, response_result, returned, exc, trace>>

\* the sql argument of the first tool call, "" when there is none
FirstSql_default_none(ps) == IF Len(ps) > 0 THEN ps[1].arguments.sql ELSE None

FirstSql_last(ps) ==
    IF Len(ps) > 0 /\ "sql" \in DOMAIN ps[Len(ps)].arguments
      THEN ps[Len(ps)].arguments.sql ELSE EmptySql

FirstSql(ps) == IF Len(ps) > 0 THEN ps[1].arguments.sql ELSE EmptySql

\* tool_predictions and sql_query are read from the result
ExtractSql ==
    /\ pc = "extract"
    /\ LET ps == tool_result.tool_predictions IN
       IF Len(ps) > 0 /\ "sql" \notin DOMAIN ps[1].arguments
         THEN /\ Raises("KeyError")
              /\ UNCHANGED <<tool_predictions, sql_query>>
         ELSE /\ tool_predictions' =
                    [i \in 1..Len(ps) |-> [tool_name |-> ps[i].name,
                                           arguments |-> ps[i].arguments]]
              /\ sql_query' = FirstSql(ps)
              /\ pc' = "execute"
              /\ UNCHANGED <<dbVars, exc>>
    /\ UNCHANGED <<clientVars, caller, provider, owns_conn, db_conn, tool_result,
                   query_result, query_success, text_prompt, response_result,
                   returned, trace>>

\* query_success = "error" not in query_result
QuerySuccess_always(result) == TRUE

QuerySuccess(result) == "error" \notin DOMAIN result

\* query_result = execute_query(db_conn, sql_query); query_success
ExecuteSql ==
    /\ pc = "execute"
    /\ LET r == execute_query(connections, databases, db_conn, sql_query) IN
        /\ IF r.raised # None
             THEN /\ Raises(r.raised)
                  /\ UNCHANGED <<query_result, query_success>>
             ELSE /\ query_result' = r.result
                  /\ query_success' = QuerySuccess(r.result)
                  /\ databases' = r.databases
                  /\ pc' = "text"
                  /\ UNCHANGED <<connections, exc>>
        /\ last' = [ op |-> "execute_query", conn |-> db_conn, sql |-> sql_query,
                     raised |-> ConnExecute(connections, databases, db_conn,
                                            sql_query).raised,
                     escaped |-> r.raised, result |-> r.result ]
    /\ trace' = Append(trace, "execute_query")
    /\ UNCHANGED <<used, caller, provider, owns_conn, db_conn, tool_result,
                   tool_predictions, sql_query, text_prompt, response_result,
                   returned>>

\* the text client is created and its run_async is awaited with the prompt
StartTextCall ==
    /\ pc = "text"
    /\ text_prompt' = [sql_query |-> sql_query, query_result |-> query_result]
    /\ trace' = Append(trace, "text_call")
    /\ pc' = "await_text"
    /\ UNCHANGED <<dbVars, clientVars, caller, provider, owns_conn, db_conn,
                   tool_result, tool_predictions, sql_query, query_result,
                   query_success, response_result, returned, exc>>

\* text_client.run_async raises
TextCallFails ==
    /\ pc = "await_text"
    /\ Raises("ModelError")
    /\ trace' = Append(trace, "text_call_failed")
    /\ UNCHANGED <<clientVars, caller, provider, owns_conn, db_conn, tool_result,
                   tool_predictions, sql_query, query_result, query_success,
                   text_prompt, response_result, returned>>

\* text_client.run_async returns: the usage is combined, the dict returned,
\* and the finally block runs
TextCallReturns(results) ==
    /\ pc = "await_text"
    /\ \E r \in results :
        /\ response_result' = r
        /\ returned' = [ tool_predictions |-> tool_predictions,
                         prediction_count |-> Len(tool_predictions),
                         sql_query        |-> sql_query,
                         query_result     |-> query_result,
                         query_success    |-> query_success,
                         response         |-> r.response,
                         usage            |-> CombineUsage(tool_result, r) ]
    /\ LET f == Finally("return", owns_conn, db_conn, connections, databases) IN
        /\ connections' = f.connections
        /\ databases' = f.databases
    /\ pc' = "returned"
    /\ UNCHANGED <<clientVars, caller, provider, owns_conn, db_conn, tool_result,
                   tool_predictions, sql_query, query_result, query_success,
                   text_prompt, exc, trace>>

\* _run_eval's finally block: db_conn.close(), whether run_agent returned or
\* raised; the model fields are then added to a returned dict
RunEvalFinally ==
    /\ caller = "_run_eval"
    /\ pc \in {"returned", "raised"}
    /\ LET r == close(connections, databases, db_conn) IN
        /\ connections' = r.connections
        /\ databases' = r.databases
    /\ pc' = "eval_done"
    /\ UNCHANGED <<clientVars, caller, provider, owns_conn, db_conn, tool_result,
                   tool_predictions, sql_query, query_result, query_success,
                   text_prompt, response_result, returned, exc, trace>>

\* The inputs of Spec: any provider name, any list of tool calls, one usage.
Providers == {"anthropic", "openai", "azure"}

AgentToolResults ==
    ToolResults(PredictionLists(Predictions, MaxPredictions), OneUsage)

AgentTextResults == TextResults(OneUsage)

\* The inputs of SpecUsage: one tool call with a valid query, and every usage
\* the two model calls may report.
UsageToolResults ==
    ToolResults({<<[name |-> "generate_sql", arguments |-> [sql |-> CountOrders]]>>},
                AllUsages)

UsageTextResults == TextResults(AllUsages)

Next ==
    \/ CallDirect(Providers)
    \/ CallRunEval(Providers)
    \/ LookupProvider
    \/ ToolCallFails
    \/ ToolCallReturns(AgentToolResults)
    \/ ExtractSql
    \/ ExecuteSql
    \/ StartTextCall
    \/ TextCallFails
    \/ TextCallReturns(AgentTextResults)
    \/ RunEvalFinally

Spec == Init /\ [][Next]_vars

NextUsage ==
    \/ CallDirect({"anthropic"})
    \/ CallRunEval({"openai"})
    \/ LookupProvider
    \/ ToolCallFails
    \/ ToolCallReturns(UsageToolResults)
    \/ ExtractSql
    \/ ExecuteSql
    \/ StartTextCall
    \/ TextCallFails
    \/ TextCallReturns(UsageTextResults)
    \/ RunEvalFinally

SpecUsage == Init /\ [][NextUsage]_vars
\* ================================================================ claims
\* how often event e occurs in the invocation's trace
Count(e) == Cardinality({i \in 1..Len(trace) : trace[i] = e})

\* the invocation's calls, without create_database and the failure marks
Calls == SelectSeq(trace, LAMBDA e : e \in {"tool_call", "execute_query", "text_call"})

\* run_agent has left: it returned or raised (and _run_eval may have cleaned up)
Exited == pc \in {"returned", "raised", "eval_done"}

\* the generated SQL was executed and the execution failed
SqlFailed == last.op = "execute_query" /\ last.raised # None

\* C1: whenever run_agent was called without a db_conn and has returned or
\* raised, by whichever way, the connection it created is closed.
C1_OwnedConnectionClosed ==
    (caller = "direct" /\ pc \in {"returned", "raised"})
        => ~connections[db_conn].open

\* a text model failure after a failed SQL execution, in a direct call
C1_Witness ==
    /\ caller = "direct"
    /\ pc = "raised"
    /\ exc = "ModelError"
    /\ SqlFailed
    /\ Count("text_call_failed") = 1

\* C2: a caller-supplied connection is open at every point of run_agent and
\* after it returned or raised; it is closed only once _run_eval closed it.
C2_SuppliedConnectionStaysOpen ==
    caller = "_run_eval" =>
        /\ ~owns_conn
        /\ connections[db_conn].open = (pc # "eval_done")

\* run_agent raised on a supplied connection, which is still open
C2_Witness ==
    /\ caller = "_run_eval"
    /\ pc = "raised"
    /\ "execute_query" \in {trace[i] : i \in 1..Len(trace)}
    /\ connections[db_conn].open

\* C3: a failed SQL execution gives the {error} payload and query_success
\* false and never makes run_agent raise: the text model is called once with
\* that payload, the only failure left is that of the text model call, and a
\* returned dict carries the payload; query_success is true exactly when
\* query_result has no error key.
C3_SqlFailureIsNotAnError ==
    /\ SqlFailed =>
        /\ pc \in {"text", "await_text", "returned", "raised", "eval_done"}
        /\ DOMAIN query_result = {"error"}
        /\ query_result = last.result
        /\ ~query_success
        /\ pc # "text" =>
            /\ Count("text_call") = 1
            /\ text_prompt.query_result = query_result
        /\ exc # None => (exc = "ModelError" /\ Count("text_call_failed") = 1)
        /\ (Exited /\ exc = None) =>
            /\ returned # NoneValue
            /\ returned.query_result = query_result
            /\ returned.query_success = FALSE
    /\ returned # NoneValue =>
        returned.query_success = ("error" \notin DOMAIN returned.query_result)
    /\ "execute_query" \in {trace[i] : i \in 1..Len(trace)} =>
        (query_result # NoneValue
            /\ query_success = ("error" \notin DOMAIN query_result))

\* run_agent returned the error payload of a failed execution
C3_Witness ==
    /\ SqlFailed
    /\ pc = "returned"
    /\ returned.query_result = [error |-> "near SELEC: syntax error"]
    /\ ~returned.query_success

\* C4: execute_query lets no exception escape; when the execution succeeded
\* it returns exactly columns, rows and row_count, when it failed exactly
\* error; invalid SQL always fails.
C4_ExecuteQueryShapes ==
    last.op = "execute_query" =>
        /\ last.escaped = None
        /\ IF last.raised = None
             THEN /\ DOMAIN last.result = {"columns", "rows", "row_count"}
                  /\ last.result.row_count = Len(last.result.rows)
             ELSE DOMAIN last.result = {"error"}
        /\ last.sql \in InvalidSql => DOMAIN last.result = {"error"}

\* a statement that is not one statement returned the error shape
C4_Witness ==
    /\ last.op = "execute_query"
    /\ last.sql = TwoStatements
    /\ DOMAIN last.result = {"error"}

\* the tool-calling model returned no tool call
NoToolCall == tool_result # NoneValue /\ Len(tool_result.tool_predictions) = 0

\* C5 as stated: with no tool call the executed empty string fails, so that
\* query_result is an {error} payload and query_success is false.
C5_EmptySqlFails ==
    (NoToolCall /\ "execute_query" \in {trace[i] : i \in 1..Len(trace)}) =>
        ("error" \in DOMAIN query_result /\ ~query_success)

\* C5 amended: with no tool call nothing is raised for it, sql_query is the
\* empty string, its execution succeeds with no columns and no rows,
\* query_success is true, and the text model is called with that result.
C5_EmptySqlSucceeds ==
    NoToolCall =>
        /\ pc \in {"extract", "execute", "text", "await_text", "returned",
                   "raised", "eval_done"}
        /\ pc # "extract" => sql_query = EmptySql
        /\ pc \notin {"extract", "execute"} =>
            /\ last.sql = EmptySql
            /\ last.raised = None
            /\ query_result = [columns |-> <<>>, rows |-> <<>>, row_count |-> 0]
            /\ query_success
        /\ pc \notin {"extract", "execute", "text"} =>
            /\ Count("text_call") = 1
            /\ text_prompt = [sql_query |-> EmptySql, query_result |-> query_result]
        /\ exc # None => (exc = "ModelError" /\ Count("text_call_failed") = 1)

\* run_agent returned after the model gave no tool call
C5_Witness ==
    /\ NoToolCall
    /\ pc = "returned"
    /\ returned.sql_query = EmptySql
    /\ returned.query_success

\* a cost as a number: an unreported cost counts as nothing
Reported(c) == IF c = NoneCost THEN 0 ELSE c

\* C6: the usage run_agent returns is, field by field, the sum of what the
\* two model calls reported.
C6_UsageIsAdditive ==
    pc = "returned" =>
        LET t == tool_result
            r == response_result
            u == returned.usage
        IN  /\ u.input_tokens = t.input_tokens + r.input_tokens
            /\ u.output_tokens = t.output_tokens + r.output_tokens
            /\ u.input_cost = Reported(t.input_cost) + Reported(r.input_cost)
            /\ u.output_cost = Reported(t.output_cost) + Reported(r.output_cost)
            /\ u.total_cost = Reported(t.total_cost) + Reported(r.total_cost)
            /\ u.duration_seconds = t.duration_seconds + r.duration_seconds

\* two calls that report different token counts and a cost each
C6_Witness ==
    /\ pc = "returned"
    /\ tool_result.input_tokens = 1
    /\ response_result.input_tokens = MaxTokens
    /\ tool_result.output_tokens = MaxTokens
    /\ tool_result.total_cost = MaxCost
    /\ response_result.total_cost = MaxCost
    /\ returned.usage.total_cost = 2 * MaxCost

\* C7: each model call is made at most once; a failed model call makes
\* run_agent raise with nothing returned; after a failed tool-calling model
\* call no SQL is executed and the text model is not called.
C7_NoRetries ==
    /\ Count("tool_call") <= 1
    /\ Count("text_call") <= 1
    /\ Count("tool_call_failed") + Count("text_call_failed") <= 1
    /\ (Count("tool_call_failed") + Count("text_call_failed") = 1) =>
        /\ pc \in {"raised", "eval_done"}
        /\ exc = "ModelError"
        /\ returned = NoneValue
    /\ Count("tool_call_failed") = 1 =>
        /\ Count("execute_query") = 0
        /\ Count("text_call") = 0
        /\ query_result = NoneValue
    /\ exc # None => returned = NoneValue

\* the tool-calling model call failed and run_agent raised
C7_Witness ==
    /\ pc = "raised"
    /\ Count("tool_call_failed") = 1
    /\ exc = "ModelError"

\* C8: with a provider that is neither anthropic nor openai run_agent raises
\* a KeyError before any model call and before execute_query.
C8_UnknownProviderRaises ==
    (provider \notin {"anthropic", "openai"} /\ pc \notin {"idle", "lookup"}) =>
        /\ pc \in {"raised", "eval_done"}
        /\ exc = "KeyError"
        /\ Calls = <<>>
        /\ tool_result = NoneValue
        /\ returned = NoneValue

\* run_agent raised for the provider azure
C8_Witness ==
    /\ provider = "azure"
    /\ pc = "raised"
    /\ exc = "KeyError"

\* what every statement would return on connection c
QueryView(c) ==
    [sql \in SqlStatements |->
        execute_query(connections, databases, c, sql).result]

\* the connections no statement was run on yet and that are open
FreshConns == {c \in DOMAIN connections : connections[c].open /\ c \notin used}

\* what connection c reaches: whether it is open, and its database's content
Store(c) == [open |-> connections[c].open, content |-> databases[connections[c].db]]

\* C9: stores that were created and not yet used answer every query alike,
\* and a call on one connection (a statement, data-mutating or not, or its
\* close) changes no query's result on any other connection. (A query's
\* result depends on Store(c) alone, so an unchanged store is not queried.)
C9_IndependentStores ==
    [][ /\ \A c, d \in FreshConns' : c < d => QueryView(c)' = QueryView(d)'
        /\ \A c \in DOMAIN connections :
              c # last'.conn =>
                  (Store(c)' = Store(c) \/ QueryView(c)' = QueryView(c)) ]_vars

\* two open stores that differ after a statement deleted from one of them
C9_Witness ==
    /\ last.op = "execute_query"
    /\ last.sql = DeleteOrder
    /\ \E d \in FreshConns :
          /\ d # last.conn
          /\ QueryView(d)[CountOrders].rows = << <<12>> >>
          /\ QueryView(last.conn)[CountOrders].rows = << <<11>> >>

\* C10: the calls of an invocation are, in order, the tool-calling model
\* call, one execute_query on the first tool call's sql argument, and one text
\* model call; execute_query runs only when the tool-calling model has
\* returned, and the query_result returned is the one the text model got.
C10_FixedOrder ==
    /\ \E n \in 0..3 : Calls = SubSeq(<<"tool_call", "execute_query", "text_call">>, 1, n)
    /\ Count("execute_query") = 1 =>
        /\ tool_result # NoneValue
        /\ last.op = "execute_query"
        /\ last.sql = sql_query
        /\ Len(tool_result.tool_predictions) > 0 =>
              sql_query = tool_result.tool_predictions[1].arguments.sql
    /\ Count("text_call") = 1 =>
        /\ Count("execute_query") = 1
        /\ text_prompt.query_result = last.result
        /\ text_prompt.sql_query = last.sql
    /\ pc = "returned" =>
        /\ Calls = <<"tool_call", "execute_query", "text_call">>
        /\ returned.query_result = text_prompt.query_result
        /\ returned.sql_query = text_prompt.sql_query

\* run_agent returned after two tool calls with different sql arguments
C10_Witness ==
    /\ pc = "returned"
    /\ Len(tool_result.tool_predictions) = 2
    /\ tool_result.tool_predictions[1].arguments.sql = CountOrders
    /\ tool_result.tool_predictions[2].arguments = [sql |-> SyntaxError]
    /\ returned.query_result.rows = << <<12>> >>
====
